---- MODULE Spec2Model ----
(***************************************************************************)
(* Model of the threat-intelligence ingestion (ThreatIntelligence.py) and  *)
(* of the activity classifier (Analysis.py).                               *)
(*                                                                         *)
(* The graph store is a labelled property graph: `nodes` is the sequence   *)
(* of nodes in creation order (a node's identity is its position), `edges` *)
(* maps every <<source, type, target>> to the number of relationships of   *)
(* that shape.  Every Cypher statement of the source is a record           *)
(* [kind, ...parameters]; a handler is the sequence of statements it       *)
(* issues, which depends on its arguments only.                            *)
(***************************************************************************)
EXTENDS Integers, Sequences, FiniteSets, TLC

VARIABLES
    nodes, edges,             \* the graph store
    last, calls,              \* the latest handler call and the number of calls
    firstPulse, lastPulse,    \* history of the Pulse merges, by key <<name, group>>
    pulseByName,              \* and by pulse name
    entitiesOf,               \* history of the RelatedEntity merges: <<group, key>>
    pc, threat_groups, feed2, \* store_threat_group_data: position, catalog, feed file
    idx, alreadyAccessed,     \* its loop over the catalog
    pending, raising,         \* statements the running handler has yet to issue
    response,                 \* what fetch_pulses returned
    driver, exc, out,         \* connection, propagated exception, printed messages
    stats,                    \* counts of the statements run and of what they created
    frame, columns,           \* detect_outliers: the table and the columns to check
    outlierResult,            \* and what it returns
    pulse_data, pmfResult,    \* process_data: the pulse rows and what it computes
    input_file, output_file,  \* fix_json_file: the two files,
    fixPc, fixed_data, fixLog, \* its position, the repaired text, its messages
    df, current_date, result  \* classify_threats: pulse table, datetime.now(), lists

callVars == <<last, calls, firstPulse, lastPulse, pulseByName, entitiesOf>>
runVars == <<pc, threat_groups, feed2, idx, alreadyAccessed, pending, raising,
             response, driver, exc, out, stats>>
classVars == <<df, current_date, result>>
outlierVars == <<frame, columns, outlierResult>>
pmfVars == <<pulse_data, pmfResult>>
fixVars == <<input_file, output_file, fixPc, fixed_data, fixLog>>
toolVars == <<outlierVars, pmfVars, fixVars>>
vars == <<nodes, edges, callVars, runVars, classVars, toolVars>>

(* ------------------------------ bounds --------------------------------- *)
MaxCalls == 2
MaxBatch == 2
MaxRows == 3

(* --------------------------- python helpers ---------------------------- *)
\* dict.get(key, default)
Get(d, k, default) == IF k \in DOMAIN d THEN d[k] ELSE default

\* sequences over S of length at most n
SeqUpTo(S, n) == {s \in UNION {[1..k -> S] : k \in 0..n} : TRUE}

(* --------------------------- graph primitives -------------------------- *)
Node(label, props) == [label |-> label, props |-> props]

\* MATCH (x:label {key}): the ids of the nodes with that label and those properties
Match(ns, label, key) ==
    {i \in 1..Len(ns) :
        /\ ns[i].label = label
        /\ \A k \in DOMAIN key : k \in DOMAIN ns[i].props /\ ns[i].props[k] = key[k]}

\* SET x.k = v for every k of upd
SetProps(props, upd) == upd @@ props

\* COALESCE(x.k, v)
Coalesce(props, k, v) == IF k \in DOMAIN props THEN props[k] ELSE v

\* ON MATCH SET onMatch, x.ck = COALESCE(x.ck, cv) on every node of m
RECURSIVE SetMatched(_, _, _, _, _)
SetMatched(ns, m, onMatch, ck, cv) ==
    IF m = {} THEN ns
    ELSE LET i == CHOOSE x \in m : TRUE
             set == SetProps(ns[i].props, onMatch)
             props == IF ck = "" THEN set
                      ELSE SetProps(set, ck :> Coalesce(ns[i].props, ck, cv))
         IN SetMatched([ns EXCEPT ![i] = [label |-> ns[i].label, props |-> props]],
                       m \ {i}, onMatch, ck, cv)

\* MERGE (x:label {key}) ON CREATE SET onCreate ON MATCH SET onMatch,
\* where onMatch may coalesce the property `ck` with the value `cv`
MergeNode(ns, label, key, onCreate, onMatch, ck, cv) ==
    LET m == Match(ns, label, key) IN
    IF m = {}
    THEN Append(ns, Node(label, SetProps(key, onCreate)))
    ELSE SetMatched(ns, m, onMatch, ck, cv)

\* MERGE (a)-[:type]->(b) for every bound pair: T is the set of <<a, type, b>>
RECURSIVE MergeEdgesCreate(_, _)
MergeEdgesCreate(es, T) ==
    IF T = {} THEN es
    ELSE LET t == CHOOSE x \in T : TRUE
         IN MergeEdgesCreate((t :> (IF t \in DOMAIN es THEN es[t] + 1 ELSE 1)) @@ es,
                             T \ {t})

RECURSIVE MergeEdges(_, _)
MergeEdges(es, T) ==
    IF T = {} THEN es
    ELSE LET t == CHOOSE x \in T : TRUE
         IN MergeEdges(IF t \in DOMAIN es THEN es ELSE (t :> 1) @@ es, T \ {t})

\* MATCH (a:la {ka}), (b:lb {kb}) MERGE (a)-[:type]->(b)
Link(ns, es, la, ka, type, lb, kb) ==
    MergeEdges(es, {<<a, type, b>> : a \in Match(ns, la, ka), b \in Match(ns, lb, kb)})

NoEdges == <<>>
NoProps == <<>>

(* ------------------------ statement parameters ------------------------- *)
\* the key pattern of each MERGE, from the statement's parameters
GroupKey(p) == [name |-> p.name]
AliasKey(alias) == [name |-> alias]
PulseKeyWithDescription(p) ==
    [name |-> p.pulse_name, group |-> p.group_name, description |-> p.pulse_description]
PulseKeyNameOnly(p) == [name |-> p.pulse_name]
PulseKey(p) == [name |-> p.pulse_name, group |-> p.group_name]
CountryKey(p) == [code |-> p.code]
EntityKey(p) == [tid |-> p.tid, name |-> p.name, category |-> p.category, risk |-> p.risk]
EntityLinkKey(p) == [tid |-> p.tid]
TacticKey(p) == [name |-> p.name, group |-> p.group_name]
TechniqueKey(p) == [name |-> p.name, group |-> p.group_name]

\* ON CREATE SET / ON MATCH SET of the Pulse merge
PulseOnCreate(p) ==
    [createdBy |-> p.group_name, id |-> p.pulse_id,
     description |-> p.pulse_description, created |-> p.pulse_created,
     malware_families |-> p.pulse_malware_families,
     targeted_countries |-> p.pulse_targeted_countries,
     industries |-> p.pulse_industries]

PulseOnMatchKeepsDescription(p) ==
    [created |-> p.pulse_created,
     malware_families |-> p.pulse_malware_families,
     targeted_countries |-> p.pulse_targeted_countries,
     industries |-> p.pulse_industries]

PulseOnMatch(p) ==
    [description |-> p.pulse_description, created |-> p.pulse_created,
     malware_families |-> p.pulse_malware_families,
     targeted_countries |-> p.pulse_targeted_countries,
     industries |-> p.pulse_industries]

(* ----------------------------- statements ------------------------------ *)
\* MATCH (n) DETACH DELETE n
DeleteRelationshipsOnly(g) == [nodes |-> g.nodes, edges |-> NoEdges]

DeleteAll(g) == [nodes |-> <<>>, edges |-> NoEdges]

\* UNWIND $aliases AS alias MERGE (a:Alias {name: alias}) MERGE (tg)-[:HAS_ALIAS]->(a)
RECURSIVE UnwindAliases(_, _, _)
UnwindAliases(g, tgKey, aliases) ==
    IF aliases = <<>> THEN g
    ELSE LET ns == MergeNode(g.nodes, "Alias", AliasKey(Head(aliases)),
                             NoProps, NoProps, "", "")
             es == Link(ns, g.edges, "ThreatGroup", tgKey, "HAS_ALIAS",
                        "Alias", AliasKey(Head(aliases)))
         IN UnwindAliases([nodes |-> ns, edges |-> es], tgKey, Tail(aliases))

\* MERGE (tg:ThreatGroup {name}) SET tg.description WITH tg UNWIND ...
MergeGroup(g, p) ==
    LET ns == MergeNode(g.nodes, "ThreatGroup", GroupKey(p),
                        [description |-> p.description],
                        [description |-> p.description], "", "")
    IN UnwindAliases([nodes |-> ns, edges |-> g.edges], GroupKey(p), p.aliases)

MergePulse(g, p) ==
    [nodes |-> MergeNode(g.nodes, "Pulse", PulseKey(p), PulseOnCreate(p),
                         PulseOnMatch(p), "group", p.group_name),
     edges |-> g.edges]

LinkPulse(g, p) ==
    [nodes |-> g.nodes,
     edges |-> Link(g.nodes, g.edges, "ThreatGroup", [name |-> p.group_name],
                    "RELATED_TO", "Pulse",
                    [name |-> p.pulse_name, group |-> p.group_name])]

MergeCountry(g, p) ==
    [nodes |-> MergeNode(g.nodes, "Country", CountryKey(p), NoProps, NoProps, "", ""),
     edges |-> g.edges]

LinkCountry(g, p) ==
    [nodes |-> g.nodes,
     edges |-> Link(g.nodes, g.edges, "ThreatGroup", [name |-> p.group_name],
                    "ORIGINATES_FROM", "Country", [code |-> p.code])]

MergeEntity(g, p) ==
    [nodes |-> MergeNode(g.nodes, "RelatedEntity", EntityKey(p), NoProps, NoProps, "", ""),
     edges |-> g.edges]

LinkEntity(g, p) ==
    [nodes |-> g.nodes,
     edges |-> Link(g.nodes, g.edges, "ThreatGroup", [name |-> p.group_name],
                    "USES", "RelatedEntity", EntityLinkKey(p))]

MergeTactic(g, p) ==
    [nodes |-> MergeNode(g.nodes, "Tactic", TacticKey(p),
                         [createdBy |-> p.group_name], NoProps, "group", p.group_name),
     edges |-> g.edges]

LinkTactic(g, p) ==
    [nodes |-> g.nodes,
     edges |-> Link(g.nodes, g.edges, "ThreatGroup", [name |-> p.group_name],
                    "USES", "Tactic", [name |-> p.tactic_name, group |-> p.group_name])]

MergeTechnique(g, p) ==
    [nodes |-> MergeNode(g.nodes, "Technique", TechniqueKey(p),
                         [createdBy |-> p.group_name], NoProps, "group", p.group_name),
     edges |-> g.edges]

LinkTechnique(g, p) ==
    [nodes |-> g.nodes,
     edges |-> Link(g.nodes, g.edges,
                    "Tactic", [name |-> p.tactic_name, group |-> p.group_name],
                    "USES",
                    "Technique", [name |-> p.technique_name, group |-> p.group_name])]

\* session.run of one statement s = [kind, p]
Exec(g, s) ==
    CASE s.kind = "delete_all"      -> DeleteAll(g)
      [] s.kind = "merge_group"     -> MergeGroup(g, s.p)
      [] s.kind = "merge_pulse"     -> MergePulse(g, s.p)
      [] s.kind = "link_pulse"      -> LinkPulse(g, s.p)
      [] s.kind = "merge_country"   -> MergeCountry(g, s.p)
      [] s.kind = "link_country"    -> LinkCountry(g, s.p)
      [] s.kind = "merge_entity"    -> MergeEntity(g, s.p)
      [] s.kind = "link_entity"     -> LinkEntity(g, s.p)
      [] s.kind = "merge_tactic"    -> MergeTactic(g, s.p)
      [] s.kind = "link_tactic"     -> LinkTactic(g, s.p)
      [] s.kind = "merge_technique" -> MergeTechnique(g, s.p)
      [] s.kind = "link_technique"  -> LinkTechnique(g, s.p)

RECURSIVE ExecAll(_, _)
ExecAll(g, stmts) ==
    IF stmts = <<>> THEN g ELSE ExecAll(Exec(g, Head(stmts)), Tail(stmts))

Stmt(kind, p) == [kind |-> kind, p |-> p]

(* ------------------------------ handlers ------------------------------- *)
\* What a handler call does: the statements it issues in order, the exception
\* that ends it ("none" when it returns) and the messages it prints.
Prog(stmts, e, log) == [stmts |-> stmts, exc |-> e, log |-> log]
Skip == Prog(<<>>, "none", <<>>)

\* a, then b unless a raised
Then(a, b) ==
    IF a.exc # "none" THEN a
    ELSE Prog(a.stmts \o b.stmts, b.exc, a.log \o b.log)

\* store_threat_groups(driver, threat_groups)
GroupParams(group) ==
    [name |-> Get(group, "name", "Unknown"),
     description |-> Get(group, "description", "No description available."),
     aliases |-> Get(group, "aliases", <<>>)]

RECURSIVE GroupStmts(_)
GroupStmts(groups) ==
    IF groups = <<>> THEN <<>>
    ELSE <<Stmt("merge_group", GroupParams(Head(groups)))>> \o GroupStmts(Tail(groups))

store_threat_groups(groups) ==
    Prog(<<Stmt("delete_all", NoProps)>> \o GroupStmts(groups),
         "none",
         <<"All data has been deleted from the database.">>)

\* store_pulses(driver, group_name, pulses)
PulseParams(group_name, pulse) ==
    [pulse_name |-> Get(pulse, "name", "N/A"),
     group_name |-> group_name,
     pulse_id |-> Get(pulse, "id", "N/A"),
     pulse_description |-> Get(pulse, "description", "No description available."),
     pulse_created |-> Get(pulse, "created", "N/A"),
     pulse_malware_families |-> Get(pulse, "malware_families", "N/A"),
     pulse_targeted_countries |-> Get(pulse, "targeted_countries", "N/A"),
     pulse_industries |-> Get(pulse, "industries", "N/A")]

RECURSIVE PulseStmts(_, _)
PulseStmts(group_name, results) ==
    IF results = <<>> THEN <<>>
    ELSE LET p == PulseParams(group_name, Head(results)) IN
         <<Stmt("merge_pulse", p),
           Stmt("link_pulse", [group_name |-> group_name, pulse_name |-> p.pulse_name])>>
         \o PulseStmts(group_name, Tail(results))

store_pulses(group_name, pulses) ==
    IF "results" \in DOMAIN pulses /\ pulses["results"].isList
    THEN Prog(PulseStmts(group_name, pulses["results"].items), "none", <<>>)
    ELSE Prog(<<>>, "none", <<"Invalid response format.">>)

\* store_pulsedive_info(driver, group_name, related, country, ttps)
CountryStmts(group_name, country) ==
    IF Len(country) > 0
    THEN <<Stmt("merge_country", [code |-> country[1]]),
           Stmt("link_country", [group_name |-> group_name, code |-> country[1]])>>
    ELSE <<>>

EntityFields == {"tid", "name", "category", "risk"}

\* the loop over `related`: entity["tid"], entity["name"], ... raise KeyError
\* on an entity that lacks the field
RECURSIVE RelatedProg(_, _)
RelatedProg(group_name, related) ==
    IF related = <<>> THEN Skip
    ELSE LET entity == Head(related) IN
         IF ~(EntityFields \subseteq DOMAIN entity)
         THEN Prog(<<>>, "KeyError", <<>>)
         ELSE Then(Prog(<<Stmt("merge_entity",
                               [tid |-> entity["tid"], name |-> entity["name"],
                                category |-> entity["category"], risk |-> entity["risk"]]),
                          Stmt("link_entity",
                               [group_name |-> group_name, tid |-> entity["tid"]])>>,
                        "none", <<>>),
                   RelatedProg(group_name, Tail(related)))

RECURSIVE TechniqueStmts(_, _, _)
TechniqueStmts(group_name, tactic_name, techniques) ==
    IF techniques = <<>> THEN <<>>
    ELSE <<Stmt("merge_technique", [name |-> Head(techniques), group_name |-> group_name]),
           Stmt("link_technique", [tactic_name |-> tactic_name,
                                   technique_name |-> Head(techniques),
                                   group_name |-> group_name])>>
         \o TechniqueStmts(group_name, tactic_name, Tail(techniques))

\* ttps.items() is the sequence of [tactic, techniques], techniques = [isList, items]
RECURSIVE TtpStmts(_, _)
TtpStmts(group_name, ttps) ==
    IF ttps = <<>> THEN <<>>
    ELSE LET tactic_name == Head(ttps).tactic
             technique_list == Head(ttps).techniques
         IN <<Stmt("merge_tactic", [name |-> tactic_name, group_name |-> group_name]),
              Stmt("link_tactic", [group_name |-> group_name, tactic_name |-> tactic_name])>>
            \o (IF technique_list.isList /\ technique_list.items # <<>>
                THEN TechniqueStmts(group_name, tactic_name, technique_list.items)
                ELSE <<>>)
            \o TtpStmts(group_name, Tail(ttps))

store_pulsedive_info(group_name, related, country, ttps) ==
    Then(Prog(CountryStmts(group_name, country), "none", <<>>),
         Then(RelatedProg(group_name, related),
              Prog(TtpStmts(group_name, ttps), "none", <<>>)))

\* str.lower() on the names of the model
Lower(s) ==
    CASE s = "APT1" -> "apt1"
      [] s = "APT2" -> "apt2"
      [] s = "Unknown" -> "unknown"
      [] s = "Comment Crew" -> "comment crew"
      [] OTHER -> s

LowerAll(names) == [i \in 1..Len(names) |-> Lower(names[i])]

InSeq(x, sq) == \E i \in 1..Len(sq) : sq[i] = x

\* one iteration of the loop of fetch_pulsedive_info over the records of the file
RecordProg(group_name, record) ==
    LET othernames == LowerAll(Get(record, "othernames", <<>>)) IN
    IF "threat" \notin DOMAIN record
    THEN Prog(<<>>, "AttributeError", <<>>)      \* None.lower()
    ELSE IF Lower(record["threat"]) = Lower(group_name)
            \/ InSeq(Lower(group_name), othernames)
         THEN LET related_entities == Get(record, "related", <<>>)
                  attributes == Get(record, "attributes", [isDict |-> TRUE, fields |-> NoProps])
                  ttps == Get(record, "ttps", <<>>)
              IN IF ~attributes.isDict
                 THEN Skip                        \* continue
                 ELSE store_pulsedive_info(group_name, related_entities,
                                           Get(attributes.fields, "countrycode", <<>>),
                                           ttps)
         ELSE Skip

RECURSIVE RecordsProg(_, _)
RecordsProg(group_name, records) ==
    IF records = <<>> THEN Skip
    ELSE Then(RecordProg(group_name, Head(records)),
              RecordsProg(group_name, Tail(records)))

\* fetch_pulsedive_info(driver, group_name), data = json.load('PulsediveInfo.json')
fetch_pulsedive_info(group_name, data) ==
    IF data.isList THEN RecordsProg(group_name, data.items) ELSE Skip

(* ------------------------------- inputs -------------------------------- *)
GroupNames == {"APT1", "APT2"}

\* records of the intrusion-set catalog; a field may be absent
GroupRecords ==
    {[name |-> "APT1", description |-> "d1", aliases |-> <<"Comment Crew", "a2">>],
     [name |-> "APT2"]}

\* pulse records of the live feed; a field may be absent
PulseRecords ==
    {[id |-> "p1", name |-> "n1", created |-> "c1", description |-> "pd1",
      malware_families |-> "m1", targeted_countries |-> "tc1", industries |-> "i1"],
     [id |-> "p2", name |-> "n1", description |-> "pd2", industries |-> "i2"]}

\* responses of the live feed: with a results list, without one, with a non-list
PulseResponses ==
    {r \in {[results |-> [isList |-> TRUE, items |-> items]] :
                items \in SeqUpTo(PulseRecords, MaxBatch)}
            \cup {NoProps, [results |-> [isList |-> FALSE, items |-> <<>>]]} : TRUE}

\* related entities of the pre-fetched feed
EntityRecords ==
    {[tid |-> "t1", name |-> "mimikatz", category |-> "tool", risk |-> "high"],
     [tid |-> "t1", name |-> "poisonivy", category |-> "malware", risk |-> "low"]}

List(items) == [isList |-> TRUE, items |-> items]
NotAList == [isList |-> FALSE, items |-> <<>>]

\* (country codes, tactic -> techniques) of a record of the pre-fetched feed
Feed2Cases ==
    {[country |-> <<>>, ttps |-> <<>>],
     [country |-> <<"CN", "RU">>,
      ttps |-> <<[tactic |-> "T1", techniques |-> List(<<"x1", "x2">>)],
                 [tactic |-> "T2", techniques |-> NotAList]>>]}

\* records of PulsediveInfo.json
Feed2Records ==
    {[threat |-> "APT1", othernames |-> <<"Comment Crew">>,
      related |-> <<[tid |-> "t1", name |-> "mimikatz", category |-> "tool", risk |-> "high"]>>,
      attributes |-> [isDict |-> TRUE, fields |-> [countrycode |-> <<"CN", "RU">>]],
      ttps |-> <<[tactic |-> "T1", techniques |-> List(<<"x1">>)]>>],
     [threat |-> "apt2",
      related |-> <<[tid |-> "t1", name |-> "poisonivy", category |-> "malware", risk |-> "low"],
                    [name |-> "notid", category |-> "malware", risk |-> "low"]>>,
      ttps |-> <<[tactic |-> "T1", techniques |-> List(<<"x1">>)]>>],
     [threat |-> "APT1", othernames |-> <<"APT2">>,
      related |-> <<[tid |-> "t2", name |-> "plugx", category |-> "malware", risk |-> "high"]>>,
      attributes |-> [isDict |-> FALSE, fields |-> NoProps],
      ttps |-> <<[tactic |-> "T3", techniques |-> List(<<"x3">>)]>>],
     [othernames |-> <<"APT1">>]}

Feed2Files ==
    {f \in {List(items) : items \in SeqUpTo(Feed2Records, MaxBatch)} \cup {NotAList} : TRUE}

(* ---------------------- history of the Pulse merges -------------------- *)
\* firstPulse / lastPulse: for every Pulse key <<name, group>> merged since the
\* last delete-all, the parameters of its first and of its latest merge;
\* pulseByName: the same for every pulse name, whatever the group
NoHistory == <<>>

Put(f, k, v) == (k :> v) @@ f
PutNew(f, k, v) == IF k \in DOMAIN f THEN f ELSE Put(f, k, v)

RECURSIVE Track(_, _)
Track(h, stmts) ==
    IF stmts = <<>> THEN h
    ELSE LET s == Head(stmts)
             k == <<s.p.pulse_name, s.p.group_name>>
             n == s.p.pulse_name
             h1 == CASE s.kind = "delete_all" ->
                          [first |-> NoHistory, last |-> NoHistory, byName |-> NoHistory]
                     [] s.kind = "merge_pulse" ->
                          [first |-> PutNew(h.first, k, s.p),
                           last |-> Put(h.last, k, s.p),
                           byName |-> Put(h.byName, n,
                                          [first |-> IF n \in DOMAIN h.byName
                                                     THEN h.byName[n].first ELSE s.p,
                                           last |-> s.p])]
                     [] OTHER -> h
         IN Track(h1, Tail(stmts))

\* entitiesOf: for every group, the keys (tid, name, category, risk) of the related
\* entities that a store_pulsedive_info call for the group has merged since the
\* last delete-all
TrackEntities(es, args, stmts) ==
    IF \E i \in 1..Len(stmts) : stmts[i].kind = "delete_all" THEN {}
    ELSE es \cup {<<args.group_name, stmts[i].p>> :
                    i \in {j \in 1..Len(stmts) : stmts[j].kind = "merge_entity"}}

(* -------------------- the handlers, called one by one ------------------ *)
NoCall == [op |-> "none", args |-> NoProps, exc |-> "none", log |-> <<>>]
NoStats == [preNodes |-> 0, deletes |-> 0, merges |-> 0,
            createdNodes |-> 0, createdEdges |-> 0]

\* `response` before fetch_pulses has answered: an empty result list
NothingFetched == [results |-> [isList |-> TRUE, items |-> <<>>]]

\* no ingestion run is in progress
RunIdle ==
    /\ pc = "idle"
    /\ threat_groups = <<>>
    /\ feed2 = NotAList
    /\ idx = 0
    /\ alreadyAccessed = {}
    /\ pending = <<>>
    /\ raising = "none"
    /\ response = NothingFetched
    /\ driver = "closed"
    /\ exc = "none"
    /\ out = <<>>
    /\ stats = NoStats

NoResult == [done |-> FALSE, inactive |-> <<>>, emerging |-> <<>>]

\* no classification is in progress
ClassIdle ==
    /\ df = <<>>
    /\ current_date = 0
    /\ result = NoResult

\* detect_outliers is not called
NoOutlierResult == [done |-> FALSE, df_clean |-> <<>>, outliers_dict |-> <<>>, log |-> <<>>]

OutlierIdle ==
    /\ frame = <<>>
    /\ columns = <<>>
    /\ outlierResult = NoOutlierResult

\* process_data is not called
NoPmfResult == [done |-> FALSE, df |-> <<>>, df_grouped |-> {}, pmf_pulse_counts |-> {}]

PmfIdle ==
    /\ pulse_data = <<>>
    /\ pmfResult = NoPmfResult

\* fix_json_file is not called; a file that does not exist
NoFile == [exists |-> FALSE, text |-> <<>>]

FixIdle ==
    /\ input_file = NoFile
    /\ output_file = NoFile
    /\ fixPc = "idle"
    /\ fixed_data = <<>>
    /\ fixLog = <<>>

ToolsIdle == OutlierIdle /\ PmfIdle /\ FixIdle

Init ==
    /\ nodes = <<>>
    /\ edges = NoEdges
    /\ RunIdle
    /\ ClassIdle
    /\ ToolsIdle
    /\ last = NoCall
    /\ calls = 0
    /\ firstPulse = NoHistory
    /\ lastPulse = NoHistory
    /\ pulseByName = NoHistory
    /\ entitiesOf = {}

\* one call of a handler that issues prog: every statement before the exception runs
Call(op, args, prog) ==
    /\ LET g == ExecAll([nodes |-> nodes, edges |-> edges], prog.stmts)
           h == Track([first |-> firstPulse, last |-> lastPulse,
                       byName |-> pulseByName], prog.stmts)
       IN /\ nodes' = g.nodes
          /\ edges' = g.edges
          /\ firstPulse' = h.first
          /\ lastPulse' = h.last
          /\ pulseByName' = h.byName
    /\ entitiesOf' = TrackEntities(entitiesOf, args, prog.stmts)
    /\ last' = [op |-> op, args |-> args, exc |-> prog.exc, log |-> prog.log]
    /\ calls' = calls + 1
    /\ UNCHANGED <<runVars, classVars, toolVars>>

\* the argument lists of the handlers
GroupBatches == SeqUpTo(GroupRecords, MaxBatch)
EntityBatches == SeqUpTo(EntityRecords, MaxBatch)

StoreThreatGroups ==
    \E groups \in GroupBatches :
        /\ calls < MaxCalls
        /\ Call("store_threat_groups", [threat_groups |-> groups],
                store_threat_groups(groups))

StorePulses ==
    \E group_name \in GroupNames, pulses \in PulseResponses :
        /\ calls < MaxCalls
        /\ Call("store_pulses", [group_name |-> group_name, pulses |-> pulses],
                store_pulses(group_name, pulses))

StorePulsediveInfo ==
    \E group_name \in GroupNames, related \in EntityBatches, c \in Feed2Cases :
        /\ calls < MaxCalls
        /\ Call("store_pulsedive_info",
                [group_name |-> group_name, related |-> related,
                 country |-> c.country, ttps |-> c.ttps],
                store_pulsedive_info(group_name, related, c.country, c.ttps))

Next ==
    \/ StoreThreatGroups
    \/ StorePulses
    \/ StorePulsediveInfo

Spec == Init /\ [][Next]_vars

\* the program of the call recorded in `last`
Program(l) ==
    CASE l.op = "store_threat_groups" -> store_threat_groups(l.args.threat_groups)
      [] l.op = "store_pulses" -> store_pulses(l.args.group_name, l.args.pulses)
      [] l.op = "store_pulsedive_info" ->
            store_pulsedive_info(l.args.group_name, l.args.related,
                                 l.args.country, l.args.ttps)
      [] l.op = "fetch_pulsedive_info" ->
            fetch_pulsedive_info(l.args.group_name, l.args.data)
      [] OTHER -> Skip

(* ------------------- store_threat_group_data: one run ------------------ *)
\* number of parameters of store_pulses, and of arguments its call passes
StorePulsesParams == 3
StorePulsesCallArgs == 4

\* the catalog of a run: the records of the handlers plus one without a name
CatalogRecords == GroupRecords \cup {[description |-> "d2", aliases |-> <<"a2">>]}
Catalogs == SeqUpTo(CatalogRecords, MaxBatch)

EmptyGraph == [nodes |-> <<>>, edges |-> NoEdges]

\* what an earlier run may have left in the store
PreGraphs ==
    {EmptyGraph,
     ExecAll(EmptyGraph,
             store_threat_groups(<<[name |-> "APT1", description |-> "d0",
                                    aliases |-> <<"old">>]>>).stmts
             \o store_pulsedive_info("APT1",
                    <<[tid |-> "t0", name |-> "old", category |-> "tool", risk |-> "low"]>>,
                    <<"CN">>, <<>>).stmts)}

RECURSIVE EdgeCount(_)
EdgeCount(es) ==
    IF DOMAIN es = {} THEN 0
    ELSE LET t == CHOOSE x \in DOMAIN es : TRUE
         IN es[t] + EdgeCount([x \in (DOMAIN es) \ {t} |-> es[x]])

RunInit ==
    /\ \E g \in PreGraphs :
          /\ nodes = g.nodes
          /\ edges = g.edges
          /\ stats = [NoStats EXCEPT !.preNodes = Len(g.nodes)]
    /\ last = NoCall
    /\ calls = 0
    /\ firstPulse = NoHistory
    /\ lastPulse = NoHistory
    /\ pulseByName = NoHistory
    /\ entitiesOf = {}
    /\ pc = "start"
    /\ threat_groups \in Catalogs
    /\ feed2 \in Feed2Files
    /\ idx = 0
    /\ alreadyAccessed = {}
    /\ pending = <<>>
    /\ raising = "none"
    /\ response = NothingFetched
    /\ driver = "closed"
    /\ exc = "none"
    /\ out = <<>>
    /\ ClassIdle
    /\ ToolsIdle

\* a handler is entered: its statements are issued one by one
Enter(prog) ==
    /\ pending' = prog.stmts
    /\ raising' = prog.exc
    /\ out' = out \o prog.log

\* an exception leaves the `with GraphDatabase.driver(...)` block, which closes the driver
Propagate(e) ==
    /\ exc' = e
    /\ driver' = "closed"
    /\ pc' = "crashed"

\* GraphDatabase.driver(URI, auth); verify_connectivity(); store_threat_groups(...)
Connect ==
    /\ pc = "start"
    /\ driver' = "open"
    /\ pc' = "store_threat_groups"
    /\ pending' = store_threat_groups(threat_groups).stmts
    /\ raising' = store_threat_groups(threat_groups).exc
    /\ out' = out \o <<"Successfully Connected">> \o store_threat_groups(threat_groups).log
    /\ UNCHANGED <<nodes, edges, callVars, classVars, toolVars, threat_groups, feed2, idx, alreadyAccessed,
                   response, exc, stats>>

\* session.run of the next statement of the running handler
RunStatement ==
    /\ pc \in {"store_threat_groups", "fetch_pulsedive_info", "store_pulses"}
    /\ pending # <<>>
    /\ LET s == Head(pending)
           g == Exec([nodes |-> nodes, edges |-> edges], s)
           del == s.kind = "delete_all"
       IN /\ nodes' = g.nodes
          /\ edges' = g.edges
          /\ stats' = [preNodes |-> stats.preNodes,
                       deletes |-> stats.deletes + (IF del THEN 1 ELSE 0),
                       merges |-> stats.merges + (IF del THEN 0 ELSE 1),
                       createdNodes |-> stats.createdNodes
                           + (IF del THEN 0 ELSE Len(g.nodes) - Len(nodes)),
                       createdEdges |-> stats.createdEdges
                           + (IF del THEN 0 ELSE EdgeCount(g.edges) - EdgeCount(edges))]
    /\ pending' = Tail(pending)
    /\ UNCHANGED <<callVars, classVars, toolVars, pc, threat_groups, feed2, idx, alreadyAccessed, raising,
                   response, driver, exc, out>>

\* the running handler has issued its statements: it raises or returns
Return ==
    /\ pc \in {"store_threat_groups", "fetch_pulsedive_info", "store_pulses"}
    /\ pending = <<>>
    /\ IF raising # "none"
       THEN /\ Propagate(raising)
            /\ UNCHANGED <<idx, out>>
       ELSE /\ UNCHANGED <<exc, driver>>
            /\ CASE pc = "store_threat_groups" ->
                      /\ out' = out \o <<"Threat groups successfully stored in Neo4j!">>
                      /\ idx' = 1
                      /\ pc' = "loop"
                 [] pc = "fetch_pulsedive_info" ->
                      /\ pc' = "fetch_pulses"
                      /\ UNCHANGED <<idx, out>>
                 [] pc = "store_pulses" ->
                      /\ out' = out \o <<"Added all data for group">>
                      /\ idx' = idx + 1
                      /\ pc' = "loop"
    /\ UNCHANGED <<nodes, edges, callVars, classVars, toolVars, threat_groups, feed2, alreadyAccessed,
                   pending, raising, response, stats>>

\* for group in threat_groups: skip a name already accessed, else fetch_pulsedive_info
Loop ==
    /\ pc = "loop"
    /\ IF idx > Len(threat_groups)
       THEN /\ pc' = "close"
            /\ UNCHANGED <<idx, alreadyAccessed, pending, raising, out>>
       ELSE LET group_name == Get(threat_groups[idx], "name", "Unknown") IN
            IF group_name \in alreadyAccessed
            THEN /\ idx' = idx + 1
                 /\ UNCHANGED <<pc, alreadyAccessed, pending, raising, out>>
            ELSE /\ alreadyAccessed' = alreadyAccessed \cup {group_name}
                 /\ pc' = "fetch_pulsedive_info"
                 /\ Enter(fetch_pulsedive_info(group_name, feed2))
                 /\ UNCHANGED idx
    /\ UNCHANGED <<nodes, edges, callVars, classVars, toolVars, threat_groups, feed2, response, driver,
                   exc, stats>>

\* pulses = fetch_pulses(group_name): whatever the live feed answers
FetchPulses ==
    /\ pc = "fetch_pulses"
    /\ response' \in PulseResponses
    /\ pc' = "call_store_pulses"
    /\ UNCHANGED <<nodes, edges, callVars, classVars, toolVars, threat_groups, feed2, idx, alreadyAccessed,
                   pending, raising, driver, exc, out, stats>>

\* store_pulses(driver, group_name, pulses, OTX_API_KEY)
CallStorePulses ==
    /\ pc = "call_store_pulses"
    /\ IF StorePulsesCallArgs = StorePulsesParams
       THEN /\ pc' = "store_pulses"
            /\ Enter(store_pulses(Get(threat_groups[idx], "name", "Unknown"), response))
            /\ UNCHANGED <<exc, driver>>
       ELSE /\ Propagate("TypeError")
            /\ UNCHANGED <<pending, raising, out>>
    /\ UNCHANGED <<nodes, edges, callVars, classVars, toolVars, threat_groups, feed2, idx, alreadyAccessed,
                   response, stats>>

\* driver.close()
Close ==
    /\ pc = "close"
    /\ driver' = "closed"
    /\ out' = out \o <<"Connection Closed">>
    /\ pc' = "done"
    /\ UNCHANGED <<nodes, edges, callVars, classVars, toolVars, threat_groups, feed2, idx, alreadyAccessed,
                   pending, raising, response, exc, stats>>

RunNext ==
    \/ Connect
    \/ RunStatement
    \/ Return
    \/ Loop
    \/ FetchPulses
    \/ CallStorePulses
    \/ Close

SpecRun == RunInit /\ [][RunNext]_vars

(* ------------- store_pulsedive_info over a stored catalog -------------- *)
\* the store after store_threat_groups has stored a catalog
EntitiesInit ==
    /\ \E groups \in GroupBatches :
          LET g == ExecAll(EmptyGraph, store_threat_groups(groups).stmts)
          IN /\ nodes = g.nodes
             /\ edges = g.edges
    /\ last = NoCall
    /\ calls = 0
    /\ firstPulse = NoHistory
    /\ lastPulse = NoHistory
    /\ pulseByName = NoHistory
    /\ entitiesOf = {}
    /\ RunIdle
    /\ ClassIdle
    /\ ToolsIdle

EntitiesNext == StorePulsediveInfo

SpecEntities == EntitiesInit /\ [][EntitiesNext]_vars

(* --------------------------- classify_threats -------------------------- *)
INACTIVE_THRESHOLD_MONTHS == 90
EMERGING_FIRST_PULSE_LIMIT == 24
EMERGING_RECENT_PULSE_LIMIT == 24

\* timestamps are counted in days since 1970-01-01 (datetime(y, m, d))
DateDays(y, m, d) ==
    LET yy == IF m <= 2 THEN y - 1 ELSE y
        era == yy \div 400
        yoe == yy - era * 400
        mp == IF m > 2 THEN m - 3 ELSE m + 9
        doy == (153 * mp + 2) \div 5 + d - 1
        doe == yoe * 365 + yoe \div 4 - yoe \div 100 + doy
    IN era * 146097 + doe - 719468

\* timedelta(days = months * 30)
MonthsDelta(months) == months * 30

\* the rows of one group, df.groupby("threat_group")
GroupRows(table, threat_group) ==
    {i \in 1..Len(table) : table[i].threat_group = threat_group}

Created(table, rows) == {table[i].pulse_created : i \in rows}
Min(S) == CHOOSE x \in S : \A y \in S : x <= y
Max(S) == CHOOSE x \in S : \A y \in S : x >= y

\* the test of the `if` and of the `elif` of the loop
IsInactiveDays(last_seen, now) == last_seen < now - INACTIVE_THRESHOLD_MONTHS

IsInactive(last_seen, now) == last_seen < now - MonthsDelta(INACTIVE_THRESHOLD_MONTHS)

IsEmerging(first_seen, last_seen, now) ==
    /\ first_seen > now - MonthsDelta(EMERGING_FIRST_PULSE_LIMIT)
    /\ last_seen > now - MonthsDelta(EMERGING_RECENT_PULSE_LIMIT)

\* groupby yields the groups in the order of their names
GroupOrder == <<"APT1", "APT2">>

\* the loop of classify_threats over the groups names[1..], appending to the lists
RECURSIVE ClassifyLoop(_, _, _, _)
ClassifyLoop(table, now, names, acc) ==
    IF names = <<>> THEN acc
    ELSE LET threat_group == Head(names)
             rows == GroupRows(table, threat_group)
         IN IF rows = {} THEN ClassifyLoop(table, now, Tail(names), acc)
            ELSE LET first_seen == Min(Created(table, rows))
                     last_seen == Max(Created(table, rows))
                     acc1 ==
                        IF IsInactive(last_seen, now)
                        THEN [acc EXCEPT !.inactive = Append(@, threat_group)]
                        ELSE IF IsEmerging(first_seen, last_seen, now)
                             THEN [acc EXCEPT !.emerging = Append(@, threat_group)]
                             ELSE acc
                 IN ClassifyLoop(table, now, Tail(names), acc1)

classify_threats(table, now) ==
    ClassifyLoop(table, now, GroupOrder, [inactive |-> <<>>, emerging |-> <<>>])

\* the current times and the pulse timestamps of the model
Nows == {DateDays(2025, 1, 1), DateDays(2026, 11, 5)}
DayOffsets == {1, 300, 720, 721, 2700, 2701}
Timestamps(now) ==
    {DateDays(2023, 1, 1), DateDays(2023, 6, 1)} \cup {now - k : k \in DayOffsets}

ClassInit ==
    /\ nodes = <<>>
    /\ edges = NoEdges
    /\ last = NoCall
    /\ calls = 0
    /\ firstPulse = NoHistory
    /\ lastPulse = NoHistory
    /\ pulseByName = NoHistory
    /\ entitiesOf = {}
    /\ RunIdle
    /\ ToolsIdle
    /\ current_date \in Nows
    /\ df \in SeqUpTo([threat_group : {"APT1", "APT2"},
                       pulse_created : Timestamps(current_date)], MaxRows)
    /\ result = NoResult

Classify ==
    /\ ~result.done
    /\ LET r == classify_threats(df, current_date)
       IN result' = [done |-> TRUE, inactive |-> r.inactive, emerging |-> r.emerging]
    /\ UNCHANGED <<nodes, edges, callVars, runVars, toolVars, df, current_date>>

ClassNext == Classify

SpecClassify == ClassInit /\ [][ClassNext]_vars

(* --------------------------- detect_outliers --------------------------- *)
\* the store and the other functions are not in use
StoreIdle ==
    /\ nodes = <<>>
    /\ edges = NoEdges
    /\ last = NoCall
    /\ calls = 0
    /\ firstPulse = NoHistory
    /\ lastPulse = NoHistory
    /\ pulseByName = NoHistory
    /\ entitiesOf = {}
    /\ RunIdle

\* df[col]: the values of a column, by row; the index of a table is 1..Len(table)
RECURSIVE ColumnValues(_, _)
ColumnValues(table, col) ==
    IF table = <<>> THEN <<>>
    ELSE <<Head(table)[col]>> \o ColumnValues(Tail(table), col)

RECURSIVE SortValues(_)
SortValues(values) ==
    IF values = <<>> THEN <<>>
    ELSE LET m == Min({values[i] : i \in 1..Len(values)})
             k == CHOOSE i \in 1..Len(values) : values[i] = m
         IN <<m>> \o SortValues(SubSeq(values, 1, k - 1) \o SubSeq(values, k + 1, Len(values)))

\* 4 * Series.quantile(q4 / 4), with the linear interpolation of pandas: the
\* quantile lies at position (n - 1) * q4 / 4 of the sorted values
Quantile4(values, q4) ==
    LET s == SortValues(values)
        h == (Len(s) - 1) * q4
        lo == h \div 4
        r == h % 4
    IN IF r = 0 THEN 4 * s[lo + 1]
       ELSE 4 * s[lo + 1] + r * (s[lo + 2] - s[lo + 1])

\* pd.api.types.is_numeric_dtype(df[col])
NumericColumns == {"a", "b"}
is_numeric_dtype(col) == col \in NumericColumns

\* df[(df[col] < lower_bound) | (df[col] > upper_bound)].index, the quartiles
\* counted in quarters and the bounds in eighths
OutliersNonStrict(table, col) ==
    LET Q1 == Quantile4(ColumnValues(table, col), 1)
        Q3 == Quantile4(ColumnValues(table, col), 3)
        IQR == Q3 - Q1
        lower_bound == 2 * Q1 - 3 * IQR
        upper_bound == 2 * Q3 + 3 * IQR
    IN {i \in 1..Len(table) :
            8 * table[i][col] <= lower_bound \/ 8 * table[i][col] >= upper_bound}

Outliers(table, col) ==
    LET Q1 == Quantile4(ColumnValues(table, col), 1)
        Q3 == Quantile4(ColumnValues(table, col), 3)
        IQR == Q3 - Q1
        lower_bound == 2 * Q1 - 3 * IQR
        upper_bound == 2 * Q3 + 3 * IQR
    IN {i \in 1..Len(table) :
            8 * table[i][col] < lower_bound \/ 8 * table[i][col] > upper_bound}

\* for col in columns
RECURSIVE OutlierLoop(_, _, _)
OutlierLoop(table, cols, acc) ==
    IF cols = <<>> THEN acc
    ELSE LET col == Head(cols) IN
         IF ~is_numeric_dtype(col)
         THEN OutlierLoop(table, Tail(cols),
                          [acc EXCEPT !.log = Append(@, <<"Skipping non-numeric column", col>>)])
         ELSE LET outliers == Outliers(table, col)
                  acc1 == IF outliers # {}
                          THEN [acc EXCEPT !.outliers_dict = (col :> outliers) @@ @,
                                           !.outlier_indices = @ \cup outliers]
                          ELSE acc
              IN OutlierLoop(table, Tail(cols), acc1)

\* df.drop(index=labels): the index labels from..n that are kept, in order
RECURSIVE Drop(_, _, _)
Drop(from, n, labels) ==
    IF from > n THEN <<>>
    ELSE (IF from \in labels THEN <<>> ELSE <<from>>) \o Drop(from + 1, n, labels)

detect_outliers(table, cols) ==
    LET acc == OutlierLoop(table, cols,
                           [outliers_dict |-> <<>>, outlier_indices |-> {}, log |-> <<>>])
    IN [df_clean |-> Drop(1, Len(table), acc.outlier_indices),
        outliers_dict |-> acc.outliers_dict,
        log |-> acc.log]

\* the tables of the model: a column of the values 1,2,2,3,3,3,4,4,100, and
\* every table of 1..MaxTable rows over a few values
MaxTable == 4
ExampleColumn == <<1, 2, 2, 3, 3, 3, 4, 4, 100>>

RECURSIVE TableOf(_)
TableOf(values) ==
    IF values = <<>> THEN <<>>
    ELSE <<[a |-> Head(values), b |-> 0, name |-> "g"]>> \o TableOf(Tail(values))

ExampleTable == TableOf(ExampleColumn)
TableRows == [a : {0, 1, 100}, b : {0, 50}, name : {"g"}]
Tables == {t \in SeqUpTo(TableRows, MaxTable) : t # <<>>} \cup {ExampleTable}
ColumnLists == {<<"a">>, <<"a", "b">>, <<"name", "b", "a">>}

OutlierInit ==
    /\ StoreIdle
    /\ ClassIdle
    /\ frame \in Tables
    /\ columns \in ColumnLists
    /\ outlierResult = NoOutlierResult
    /\ PmfIdle
    /\ FixIdle

DetectOutliers ==
    /\ ~outlierResult.done
    /\ LET r == detect_outliers(frame, columns)
       IN outlierResult' = [done |-> TRUE, df_clean |-> r.df_clean,
                            outliers_dict |-> r.outliers_dict, log |-> r.log]
    /\ UNCHANGED <<nodes, edges, callVars, runVars, classVars, frame, columns,
                   pmfVars, fixVars>>

OutlierNext == DetectOutliers

SpecOutliers == OutlierInit /\ [][OutlierNext]_vars

(* ----------------------------- process_data ---------------------------- *)
\* pulse_created is text in one of two formats, or other text; parsed, it is a
\* datetime, of which the model keeps the month, or NaT
FormatFraction == "%Y-%m-%dT%H:%M:%S.%f"
FormatSeconds == "%Y-%m-%dT%H:%M:%S"
Text(format, year_month) == [type |-> "str", format |-> format, year_month |-> year_month]
Datetime(year_month) == [type |-> "datetime", isNaT |-> FALSE, year_month |-> year_month]
NaT == [type |-> "datetime", isNaT |-> TRUE, year_month |-> ""]

\* pd.to_datetime(value, format=fmt, errors='coerce'): a datetime is returned as
\* it is; text that is not in the format is NaT, except that a pandas which reads
\* every ISO 8601 text (iso) also reads the text without a fraction of a second
to_datetime(value, fmt, iso) ==
    IF value.type = "datetime" THEN value
    ELSE IF value.format = fmt \/ (iso /\ value.format = FormatSeconds)
         THEN Datetime(value.year_month)
         ELSE NaT

\* Series.fillna(other): the value of `other` where the column is NaT
fillna(value, other) == IF value.isNaT THEN other ELSE value

\* lines 173-176: parse the column, fill, and drop the rows that are still NaT
RECURSIVE ParseRows(_, _)
ParseRows(rows, iso) ==
    IF rows = <<>> THEN <<>>
    ELSE LET parsed == to_datetime(Head(rows).pulse_created, FormatFraction, iso)
             filled == fillna(parsed, to_datetime(parsed, FormatSeconds, iso))
         IN (IF filled.isNaT THEN <<>>
             ELSE <<[threat_group |-> Head(rows).threat_group, pulse_created |-> filled,
                     year_month |-> filled.year_month]>>)
            \o ParseRows(Tail(rows), iso)

\* df.groupby(["year_month", "threat_group"]).size().reset_index(name="pulse_count")
GroupByMonthAndGroup(rows) ==
    {[year_month |-> rows[i].year_month, threat_group |-> rows[i].threat_group,
      pulse_count |-> Cardinality({j \in 1..Len(rows) :
                                      /\ rows[j].year_month = rows[i].year_month
                                      /\ rows[j].threat_group = rows[i].threat_group})] :
        i \in 1..Len(rows)}

\* df_grouped.groupby(["year_month", "pulse_count"]).size()
CountSize(grouped, year_month, pulse_count) ==
    Cardinality({r \in grouped : r.year_month = year_month /\ r.pulse_count = pulse_count})

RECURSIVE MonthPulses(_, _)
MonthPulses(grouped, year_month) ==
    IF grouped = {} THEN 0
    ELSE LET r == CHOOSE x \in grouped : TRUE
         IN (IF r.year_month = year_month THEN r.pulse_count ELSE 0)
            + MonthPulses(grouped \ {r}, year_month)

\* df_grouped.groupby("year_month").size()
MonthSize(grouped, year_month) ==
    Cardinality({r \in grouped : r.year_month = year_month})

\* the quotient of the two, aligned on year_month; PMF is the fraction num / den
Pmf(grouped) ==
    {[year_month |-> r.year_month, pulse_count |-> r.pulse_count,
      PMF |-> [num |-> CountSize(grouped, r.year_month, r.pulse_count),
               den |-> MonthSize(grouped, r.year_month)]] : r \in grouped}

process_data(rows, iso) ==
    LET parsed == ParseRows(rows, iso)
        df_grouped == GroupByMonthAndGroup(parsed)
    IN [df |-> parsed, df_grouped |-> df_grouped, pmf_pulse_counts |-> Pmf(df_grouped)]

\* the pulse rows of the model
Months == {"2024-01", "2024-02"}
PulseTexts ==
    {Text(f, ym) : f \in {FormatFraction, FormatSeconds}, ym \in Months}
    \cup {Text("other", "")}
PulseTables == SeqUpTo([threat_group : GroupNames, pulse_created : PulseTexts], MaxRows)

PmfInit ==
    /\ StoreIdle
    /\ ClassIdle
    /\ OutlierIdle
    /\ FixIdle
    /\ pulse_data \in PulseTables
    /\ pmfResult = NoPmfResult

ProcessData ==
    /\ ~pmfResult.done
    /\ \E iso \in BOOLEAN :
          LET r == process_data(pulse_data, iso)
          IN pmfResult' = [done |-> TRUE, df |-> r.df, df_grouped |-> r.df_grouped,
                           pmf_pulse_counts |-> r.pmf_pulse_counts]
    /\ UNCHANGED <<nodes, edges, callVars, runVars, classVars, outlierVars, fixVars,
                   pulse_data>>

PmfNext == ProcessData

SpecPmf == PmfInit /\ [][PmfNext]_vars

(* ----------------------------- fix_json_file ---------------------------- *)
\* text is a sequence of characters; the raw text is made of these
RawChars == {"{", "}", "\n", ","}

\* raw_data.replace('}\n{', '},\n{'): every occurrence, from left to right
RECURSIVE Replace(_)
Replace(text) ==
    IF text = <<>> THEN <<>>
    ELSE IF Len(text) >= 3 /\ SubSeq(text, 1, 3) = <<"}", "\n", "{">>
         THEN <<"}", ",", "\n", "{">> \o Replace(SubSeq(text, 4, Len(text)))
         ELSE <<Head(text)>> \o Replace(Tail(text))

\* '[\n' + raw_data.replace(...) + '\n]'
Fix(raw_data) == <<"[", "\n">> \o Replace(raw_data) \o <<"\n", "]">>

\* json.loads(text), for text of brackets, braces, commas and newlines. White
\* space may stand between any two tokens; the only values such a text can hold
\* are an array and the empty object. The value is the number of objects of
\* the array; ok is FALSE for JSONDecodeError.
IsNotSpace(c) == c # "\n"

RECURSIVE ParseElements(_)
ParseElements(tokens) ==
    IF Len(tokens) >= 3 /\ tokens[1] = "{" /\ tokens[2] = "}"
    THEN IF Len(tokens) = 3 /\ tokens[3] = "]" THEN 1
         ELSE IF tokens[3] = ","
              THEN LET n == ParseElements(SubSeq(tokens, 4, Len(tokens)))
                   IN IF n < 0 THEN -1 ELSE n + 1
              ELSE -1
    ELSE -1

json_loads(text) ==
    LET tokens == SelectSeq(text, IsNotSpace) IN
    IF Len(tokens) < 2 \/ tokens[1] # "["
    THEN [ok |-> FALSE, value |-> 0]
    ELSE IF tokens = <<"[", "]">>
         THEN [ok |-> TRUE, value |-> 0]
         ELSE LET n == ParseElements(Tail(tokens))
              IN IF n < 0 THEN [ok |-> FALSE, value |-> 0] ELSE [ok |-> TRUE, value |-> n]

\* json.dumps(json_data, indent=4) of an array of n empty objects
RECURSIVE DumpElements(_)
DumpElements(n) ==
    IF n = 0 THEN <<>>
    ELSE <<"\n", "    ", "{", "}">> \o (IF n > 1 THEN <<",">> ELSE <<>>) \o DumpElements(n - 1)

json_dumps(n) ==
    IF n = 0 THEN <<"[", "]">>
    ELSE <<"[">> \o DumpElements(n) \o <<"\n", "]">>

File(text) == [exists |-> TRUE, text |-> text]

\* where fix_json_file goes after json.loads: on to the writing, or `return`
AfterLoadsAlwaysWrites(ok) == "open_output"

AfterLoads(ok) == IF ok THEN "open_output" ELSE "returned"

\* the files of the model: the input is absent or holds a raw text of at most
\* MaxText characters, the output is absent or holds an earlier result
MaxText == 5
RawTexts == SeqUpTo(RawChars, MaxText)
InputFiles == {NoFile} \cup {File(t) : t \in RawTexts}
OutputFiles == {NoFile, File(json_dumps(1))}

FixInit ==
    /\ StoreIdle
    /\ ClassIdle
    /\ OutlierIdle
    /\ PmfIdle
    /\ input_file \in InputFiles
    /\ output_file \in OutputFiles
    /\ fixPc = "start"
    /\ fixed_data = <<>>
    /\ fixLog = <<>>

\* with open(input_file, 'r') ...: raw_data = file.read(); fixed_data = ...
FixRead ==
    /\ fixPc = "start"
    /\ IF input_file.exists
       THEN /\ fixed_data' = Fix(input_file.text)
            /\ fixPc' = "loads"
            /\ UNCHANGED fixLog
       ELSE /\ fixLog' = Append(fixLog, "An error occurred")
            /\ fixPc' = "failed"
            /\ UNCHANGED fixed_data
    /\ UNCHANGED <<nodes, edges, callVars, runVars, classVars, outlierVars, pmfVars,
                   input_file, output_file>>

\* json_data = json.loads(fixed_data), or print and return
FixLoads ==
    /\ fixPc = "loads"
    /\ fixPc' = AfterLoads(json_loads(fixed_data).ok)
    /\ fixLog' = IF json_loads(fixed_data).ok THEN fixLog
                 ELSE Append(fixLog, "Error validating JSON")
    /\ UNCHANGED <<nodes, edges, callVars, runVars, classVars, outlierVars, pmfVars,
                   input_file, output_file, fixed_data>>

\* with open(output_file, 'w') as file: the file is created or emptied
FixOpenOutput ==
    /\ fixPc = "open_output"
    /\ output_file' = File(<<>>)
    /\ fixPc' = "write"
    /\ UNCHANGED <<nodes, edges, callVars, runVars, classVars, outlierVars, pmfVars,
                   input_file, fixed_data, fixLog>>

\* file.write(json.dumps(json_data, indent=4))
FixWrite ==
    /\ fixPc = "write"
    /\ output_file' = File(json_dumps(json_loads(fixed_data).value))
    /\ fixLog' = Append(fixLog, "Successfully fixed and saved the JSON")
    /\ fixPc' = "done"
    /\ UNCHANGED <<nodes, edges, callVars, runVars, classVars, outlierVars, pmfVars,
                   input_file, fixed_data>>

FixNext ==
    \/ FixRead
    \/ FixLoads
    \/ FixOpenOutput
    \/ FixWrite

SpecFix == FixInit /\ [][FixNext]_vars

(* ------------------------------- claims -------------------------------- *)
Graph == [nodes |-> nodes, edges |-> edges]

MergeHandlers == {"store_threat_groups", "store_pulses", "store_pulsedive_info"}

\* C1: applying store_threat_groups, store_pulses or store_pulsedive_info a second
\* time with the same arguments, directly after the first application, adds no
\* node and no edge: the nodes and the edges are those after the first application.
C1_SecondApplicationAddsNothing ==
    last.op \in MergeHandlers =>
        LET again == ExecAll(Graph, Program(last).stmts)
        IN /\ Len(again.nodes) = Len(nodes)
           /\ again.nodes = nodes
           /\ again.edges = edges

\* a pulse batch was merged for a stored group: Pulse nodes and RELATED_TO edges exist
C1_Witness ==
    /\ last.op = "store_pulses"
    /\ "results" \in DOMAIN last.args.pulses
    /\ Len(last.args.pulses["results"].items) = 2
    /\ \E t \in DOMAIN edges : t[2] = "RELATED_TO"

\* the key fields of every label
KeyFields(label) ==
    CASE label = "ThreatGroup" -> {"name"}
      [] label = "Alias" -> {"name"}
      [] label = "Country" -> {"code"}
      [] label = "Pulse" -> {"name", "group"}
      [] label = "Tactic" -> {"name", "group"}
      [] label = "Technique" -> {"name", "group"}
      [] label = "RelatedEntity" -> {"tid", "name", "category", "risk"}

\* C2: in every state reached by store_threat_groups, store_pulses and
\* store_pulsedive_info calls no two nodes of one label agree on all key fields.
C2_UniqueKeys ==
    \A i, j \in 1..Len(nodes) :
        (i # j /\ nodes[i].label = nodes[j].label) =>
            \E k \in KeyFields(nodes[i].label) : nodes[i].props[k] # nodes[j].props[k]

\* a Pulse key was merged again with other values and a related entity was merged twice
C2_Witness ==
    /\ \E k \in DOMAIN lastPulse : firstPulse[k] # lastPulse[k]
    /\ \E i \in 1..Len(nodes) : nodes[i].label = "ThreatGroup"

PulseNodes(k) == Match(nodes, "Pulse", [name |-> k[1], group |-> k[2]])

\* the attributes both SET lists of the Pulse merge write
PulseLatest(props, p) ==
    /\ props.description = p.pulse_description
    /\ props.created = p.pulse_created
    /\ props.malware_families = p.pulse_malware_families
    /\ props.targeted_countries = p.pulse_targeted_countries
    /\ props.industries = p.pulse_industries

\* C3 as claimed: after a Pulse key was merged twice with different values, every
\* non-key attribute of the stored node, id included, is that of the second merge.
C3_AllAttributesLatest ==
    \A k \in DOMAIN lastPulse :
        firstPulse[k] # lastPulse[k] =>
            \A i \in PulseNodes(k) :
                /\ nodes[i].props.id = lastPulse[k].pulse_id
                /\ PulseLatest(nodes[i].props, lastPulse[k])

\* C3 as amended: description, created, malware_families, targeted_countries and
\* industries are those of the latest merge of the key; id is that of the first.
C3_LatestExceptId ==
    \A k \in DOMAIN lastPulse :
        /\ PulseNodes(k) # {}
        /\ \A i \in PulseNodes(k) :
              /\ PulseLatest(nodes[i].props, lastPulse[k])
              /\ nodes[i].props.id = firstPulse[k].pulse_id

\* a key merged twice, with another id and another description the second time
C3_Witness ==
    \E k \in DOMAIN lastPulse :
        /\ firstPulse[k].pulse_id # lastPulse[k].pulse_id
        /\ firstPulse[k].pulse_description # lastPulse[k].pulse_description
        /\ PulseNodes(k) # {}

\* the names merged under one group first and under another group latest
Regrouped == {n \in DOMAIN pulseByName :
                 pulseByName[n].first.group_name # pulseByName[n].last.group_name}

\* C4 as claimed: a pulse name merged under G1 and later under G2 has one stored
\* Pulse, whose group is G1 and whose other attributes are those of the G2 merge.
C4_FirstGroupLatestValues ==
    \A n \in Regrouped :
        \A i \in Match(nodes, "Pulse", [name |-> n]) :
            /\ nodes[i].props.group = pulseByName[n].first.group_name
            /\ PulseLatest(nodes[i].props, pulseByName[n].last)

\* C4 as amended: the name has one Pulse per group; the G1 node keeps group G1 and
\* the values of the latest merge under G1, the G2 node has group G2 and the
\* values of the G2 merge.
C4_OnePulsePerGroup ==
    \A n \in Regrouped :
        LET g1 == pulseByName[n].first.group_name
            g2 == pulseByName[n].last.group_name
            n1 == Match(nodes, "Pulse", [name |-> n, group |-> g1])
            n2 == Match(nodes, "Pulse", [name |-> n, group |-> g2])
        IN /\ Cardinality(n1) = 1
           /\ Cardinality(n2) = 1
           /\ n1 \cap n2 = {}
           /\ \A i \in n1 : /\ nodes[i].props.createdBy = g1
                            /\ PulseLatest(nodes[i].props, lastPulse[<<n, g1>>])
           /\ \A i \in n2 : /\ nodes[i].props.createdBy = g2
                            /\ PulseLatest(nodes[i].props, pulseByName[n].last)

\* a name merged under two groups with different descriptions
C4_Witness ==
    \E n \in Regrouped :
        /\ pulseByName[n].first.pulse_description # pulseByName[n].last.pulse_description
        /\ Match(nodes, "Pulse", [name |-> n]) # {}

\* node i has an incoming edge of that type from a node with that label
HasOwner(i, fromLabel, type) ==
    \E t \in DOMAIN edges :
        /\ t[3] = i
        /\ t[2] = type
        /\ nodes[t[1]].label = fromLabel

OwnerOf(label) ==
    CASE label = "Alias" -> <<"ThreatGroup", "HAS_ALIAS">>
      [] label = "Pulse" -> <<"ThreatGroup", "RELATED_TO">>
      [] label = "Country" -> <<"ThreatGroup", "ORIGINATES_FROM">>
      [] label = "RelatedEntity" -> <<"ThreatGroup", "USES">>
      [] label = "Tactic" -> <<"ThreatGroup", "USES">>
      [] label = "Technique" -> <<"Tactic", "USES">>

\* C5 as claimed: in every state of a run, between two statements too, every
\* Pulse, RelatedEntity, Tactic and Country has an incoming edge from its
\* ThreatGroup, every Technique one from a Tactic, every Alias a HAS_ALIAS edge.
C5_NoOrphanNodes ==
    \A i \in 1..Len(nodes) :
        nodes[i].label # "ThreatGroup" =>
            HasOwner(i, OwnerOf(nodes[i].label)[1], OwnerOf(nodes[i].label)[2])

RunEnded == pc \in {"done", "crashed"}

\* C6: the delete-all statement of a run executes once and before every merge
\* statement, and at the end of the run every node and every edge of the graph
\* was created by a merge statement of the run.
C6_DeleteOnceThenRebuild ==
    /\ stats.deletes <= 1
    /\ stats.merges > 0 => stats.deletes = 1
    /\ RunEnded =>
          /\ stats.deletes = 1
          /\ Len(nodes) = stats.createdNodes
          /\ EdgeCount(edges) = stats.createdEdges

\* a run over a store that held nodes has ended after merging nodes and edges
C6_Witness ==
    /\ RunEnded
    /\ stats.preNodes > 0
    /\ stats.createdNodes > 0
    /\ stats.createdEdges > 0

\* the name of the group the loop is at
CurrentGroup == Get(threat_groups[idx], "name", "Unknown")

\* the records of the feed file that the group matches (line 132)
MatchingRecords(group_name) ==
    IF ~feed2.isList THEN {}
    ELSE {i \in 1..Len(feed2.items) :
            /\ "threat" \in DOMAIN feed2.items[i]
            /\ \/ Lower(feed2.items[i]["threat"]) = Lower(group_name)
               \/ InSeq(Lower(group_name),
                        LowerAll(Get(feed2.items[i], "othernames", <<>>)))}

MalformedMessages == {"Invalid response format."}
Logged == \E i \in 1..Len(out) : out[i] \in MalformedMessages

\* C7 as claimed: when a matching feed-2 record's attributes is not a map, or the
\* feed response has no results list, a message is logged, no exception
\* propagates and the other relation types of the group are still merged.
C7_MalformedContainerIsolated ==
    /\ pc = "fetch_pulses" =>
          \A i \in MatchingRecords(CurrentGroup) :
              LET record == feed2.items[i] IN
              ("attributes" \in DOMAIN record /\ ~record["attributes"].isDict) =>
                  /\ Logged
                  /\ \A j \in 1..Len(Get(record, "related", <<>>)) :
                        EntityFields \subseteq DOMAIN record["related"][j] =>
                            Match(nodes, "RelatedEntity",
                                  [tid |-> record["related"][j]["tid"],
                                   name |-> record["related"][j]["name"]]) # {}
                  /\ \A j \in 1..Len(Get(record, "ttps", <<>>)) :
                        Match(nodes, "Tactic",
                              [name |-> record["ttps"][j].tactic,
                               group |-> CurrentGroup]) # {}
    /\ ~("results" \in DOMAIN response /\ response["results"].isList) =>
          \/ pc = "call_store_pulses"
          \/ Logged /\ exc = "none"

\* C8 as claimed: a record with absent fields is merged without raising and the
\* documented default is stored for every absent field.
C8_AbsentFieldsDefaulted ==
    /\ exc \notin {"KeyError", "AttributeError"}
    /\ (pc = "loop" /\ idx = 1) =>
          \A i \in 1..Len(threat_groups) :
              Match(nodes, "ThreatGroup",
                    [name |-> Get(threat_groups[i], "name", "Unknown")]) # {}

\* the pulses of C9: 2023-01-01 and 2023-06-01, evaluated on 2025-01-01
C9_Case(threat_group) ==
    /\ current_date = DateDays(2025, 1, 1)
    /\ GroupRows(df, threat_group) # {}
    /\ Created(df, GroupRows(df, threat_group))
          = {DateDays(2023, 1, 1), DateDays(2023, 6, 1)}

\* C9 as claimed: a group whose pulses are at 2023-01-01 and 2023-06-01 is put
\* in the inactive list when the current time is 2025-01-01.
C9_OldGroupInactive ==
    result.done =>
        \A g \in {"APT1", "APT2"} : C9_Case(g) => InSeq(g, result.inactive)

\* every pulse of the group lies within the last 10 months (of at most 31 days)
AllWithinTenMonths(threat_group) ==
    /\ GroupRows(df, threat_group) # {}
    /\ \A t \in Created(df, GroupRows(df, threat_group)) :
          t <= current_date /\ current_date - t <= 10 * 31

\* C10: a group whose pulses all lie within the last 10 months is in the emerging
\* list and not in the inactive list, and no group is in both lists.
C10_RecentGroupEmerging ==
    result.done =>
        /\ \A g \in {"APT1", "APT2"} :
              AllWithinTenMonths(g) =>
                  InSeq(g, result.emerging) /\ ~InSeq(g, result.inactive)
        /\ \A g \in {"APT1", "APT2"} :
              ~(InSeq(g, result.emerging) /\ InSeq(g, result.inactive))

\* one group with pulses 1 and 300 days old is classified next to an inactive one
C10_Witness ==
    /\ result.done
    /\ AllWithinTenMonths("APT1")
    /\ Cardinality(Created(df, GroupRows(df, "APT1"))) = 2
    /\ InSeq("APT1", result.emerging)
    /\ InSeq("APT2", result.inactive)

\* every record of the feed file has the fields the code reads without a default
Feed2WellFormed ==
    feed2.isList =>
        \A i \in 1..Len(feed2.items) :
            LET record == feed2.items[i]
                related == Get(record, "related", <<>>)
            IN /\ "threat" \in DOMAIN record
               /\ \A j \in 1..Len(related) : EntityFields \subseteq DOMAIN related[j]

\* the distinct group names of the catalog of the run
CatalogNames ==
    {Get(threat_groups[i], "name", "Unknown") : i \in 1..Len(threat_groups)}

\* C14 as claimed: a run over any catalog (and a well-formed feed file) never ends
\* in an exception, and when it is done every distinct group name of the catalog
\* was ingested and the connection is closed.
C14_RunTerminatesNormally ==
    Feed2WellFormed =>
        /\ pc # "crashed"
        /\ pc = "done" => /\ driver = "closed"
                          /\ alreadyAccessed = CatalogNames

\* C15 as claimed: a USES edge from a ThreatGroup to a RelatedEntity exists only if
\* a store_pulsedive_info call for that group merged the entity's full key
\* (tid, name, category, risk).
C15_UsesOnlyOwnEntities ==
    \A e \in DOMAIN edges :
        (/\ e[2] = "USES"
         /\ nodes[e[1]].label = "ThreatGroup"
         /\ nodes[e[3]].label = "RelatedEntity")
        => <<nodes[e[1]].props.name, nodes[e[3]].props>> \in entitiesOf

\* the value of row i in column col lies strictly outside
\* [Q1 - 1.5 * IQR, Q3 + 1.5 * IQR] of the column over the whole table
OutOfBounds(table, col, i) ==
    LET q1 == Quantile4(ColumnValues(table, col), 1)
        q3 == Quantile4(ColumnValues(table, col), 3)
        v == 4 * table[i][col]
    IN \/ 2 * (q1 - v) > 3 * (q3 - q1)
       \/ 2 * (v - q3) > 3 * (q3 - q1)

\* C11: detect_outliers removes a row exactly when its value is out of bounds in
\* at least one checked numeric column, and of the column 1,2,2,3,3,3,4,4,100 it
\* removes the row of 100 alone.
C11_RemovedIffOutOfBounds ==
    outlierResult.done =>
        /\ \A i \in 1..Len(frame) :
              ~InSeq(i, outlierResult.df_clean)
              <=> \E k \in 1..Len(columns) :
                      /\ is_numeric_dtype(columns[k])
                      /\ OutOfBounds(frame, columns[k], i)
        /\ frame = ExampleTable => outlierResult.df_clean = <<1, 2, 3, 4, 5, 6, 7, 8>>

\* the example column was filtered: the row of 100 is removed, the others are kept
C11_Witness ==
    /\ outlierResult.done
    /\ frame = ExampleTable
    /\ ~InSeq(9, outlierResult.df_clean)
    /\ Len(outlierResult.df_clean) = 8

\* the months and, per month, the groups of the parsed pulses
ParsedMonths == {pmfResult.df[i].year_month : i \in 1..Len(pmfResult.df)}
GroupsIn(year_month) ==
    {pmfResult.df[i].threat_group :
        i \in {j \in 1..Len(pmfResult.df) : pmfResult.df[j].year_month = year_month}}
PulsesOf(year_month, threat_group) ==
    Cardinality({i \in 1..Len(pmfResult.df) :
                    /\ pmfResult.df[i].year_month = year_month
                    /\ pmfResult.df[i].threat_group = threat_group})

RECURSIVE SumNum(_)
SumNum(pmfRows) ==
    IF pmfRows = {} THEN 0
    ELSE LET r == CHOOSE x \in pmfRows : TRUE
         IN r.PMF.num + SumNum(pmfRows \ {r})

\* C12: for every month with a parsed pulse the PMF rows of the month sum to 1:
\* each row's numerator is the number of groups with exactly that many pulses in
\* the month, the numerators add up to the number of groups with a pulse in the
\* month, and that number is the denominator of every row.
C12_PmfSumsToOne ==
    pmfResult.done =>
        \A ym \in ParsedMonths :
            LET pmfRows == {r \in pmfResult.pmf_pulse_counts : r.year_month = ym}
            IN /\ pmfRows # {}
               /\ \A r \in pmfRows :
                     /\ r.PMF.den = Cardinality(GroupsIn(ym))
                     /\ r.PMF.num =
                           Cardinality({g \in GroupsIn(ym) : PulsesOf(ym, g) = r.pulse_count})
               /\ SumNum(pmfRows) = Cardinality(GroupsIn(ym))

\* a month in which one group has two pulses and another has one: two PMF rows
C12_Witness ==
    /\ pmfResult.done
    /\ \E r1, r2 \in pmfResult.pmf_pulse_counts :
          /\ r1.year_month = r2.year_month
          /\ r1.pulse_count = 1
          /\ r2.pulse_count = 2
          /\ r1.PMF = [num |-> 1, den |-> 2]

\* C13: every step of fix_json_file that creates or changes the output file is
\* taken after the repaired text of a readable input file has parsed as JSON; a
\* run whose input cannot be read or does not parse leaves the output file as
\* it was.
C13_OutputWrittenOnlyAfterParse ==
    [][output_file' # output_file =>
          /\ fixPc \in {"open_output", "write"}
          /\ input_file.exists
          /\ json_loads(Fix(input_file.text)).ok]_vars

\* an input with unbalanced braces was rejected and no output file exists
C13_Witness ==
    /\ fixPc = "returned"
    /\ input_file = File(<<"{", "}", "\n", "{">>)
    /\ fixLog = <<"Error validating JSON">>
    /\ ~output_file.exists

====
